---- MODULE Spec2Model ----
(***************************************************************************)
(* Model of libvmaf/src/feature/feature_name.c: the feature-name           *)
(* canonicalisation functions                                              *)
(*     vmaf_feature_name                                                   *)
(*     vmaf_feature_name_from_opts_dict                                    *)
(*     vmaf_feature_name_from_options                                      *)
(*     vmaf_feature_name_dict_from_provided_features                       *)
(*                                                                         *)
(* Representation.                                                         *)
(*   - A C string is a sequence of one-character strings; the null pointer *)
(*     of type char* is the value NULL.                                    *)
(*   - A double is modelled by the integer ten times its value ("tenths"), *)
(*     so 15 is 1.5; Fmt_g renders it as printf's %g does.                 *)
(*   - A VmafDictionary* is a record [tag, entry, addr]: tag "null" is the *)
(*     null pointer, tag "dict" a live dictionary with its entries, tag    *)
(*     "intptr" a pointer made from the integer addr.                      *)
(*   - A VmafOption table is a sequence of option records closed by a      *)
(*     sentinel whose name is NULL; the null table pointer is <<>>.        *)
(*   - Allocation failure is an input of every call: fail is the number of *)
(*     the fallible step (dictionary insertion or malloc) that fails,      *)
(*     counted from 1 in execution order; 0 means no step fails.  A step   *)
(*     fails when the count handed to it is 1, and hands on the count less *)
(*     one.                                                                *)
(***************************************************************************)
EXTENDS Integers, Sequences, FiniteSets, TLC

\* options: the option table of the feature extractor; priv: its live
\* configuration instance; call: the call in progress at the caller, with
\* its arguments and its result ("idle" between calls).
VARIABLES options, priv, call

vars == <<options, priv, call>>

\* ------------------------------------------------------------------ bounds
\* Capacity of the composer's buffers.  The macro is defined in
\* feature_name.h; the model takes a small capacity so that truncation is
\* reachable, and every formula below is stated relative to it.
VMAF_FEATURE_NAME_DEFAULT_BUFFER_SIZE == 32

\* Largest buffer size handed to vmaf_feature_name.
MaxBufSz == 14

\* Largest number of a fallible step that a call is made to fail at.
MaxFailStep == 5

\* ------------------------------------------------------- program constants
EINVAL == 22

ENOMEM == 12

\* ----------------------------------------------------------------- strings
NULL == <<"NULL">>

S_motion_force_zero ==
    <<"m","o","t","i","o","n","_","f","o","r","c","e","_","z","e","r","o">>

S_force ==
    <<"f","o","r","c","e">>

S_adm_enhn_gain_limit ==
    <<"a","d","m","_","e","n","h","n","_","g","a","i","n","_","l","i","m","i","t">>

S_egl ==
    <<"e","g","l">>

S_vif_enhn_gain_limit ==
    <<"v","i","f","_","e","n","h","n","_","g","a","i","n","_","l","i","m","i","t">>

S_adm_norm_view_dist ==
    <<"a","d","m","_","n","o","r","m","_","v","i","e","w","_","d","i","s","t">>

S_nvd ==
    <<"n","v","d">>

S_adm_ref_display_height ==
    <<"a","d","m","_","r","e","f","_","d","i","s","p","l","a","y","_","h","e","i","g","h","t">>

S_rdh ==
    <<"r","d","h">>

S_adm ==
    <<"a","d","m">>

S_motion ==
    <<"m","o","t","i","o","n">>

S_adm2_score ==
    <<"a","d","m","2","_","s","c","o","r","e">>

S_adm2 ==
    <<"a","d","m","2">>

S_debug ==
    <<"d","e","b","u","g">>

S_mode ==
    <<"m","o","d","e">>

S_bogus ==
    <<"b","o","g","u","s">>

S_ADM_ENHN_GAIN_LIMIT ==
    <<"A","D","M","_","E","N","H","N","_","G","A","I","N","_","L","I","M","I","T">>

Min(a, b) == IF a < b THEN a ELSE b

Max(a, b) == IF a < b THEN b ELSE a

\* The first n characters of s (all of s when it is shorter).
Take(s, n) == SubSeq(s, 1, Min(Len(s), n))

\* A name of n characters.
Pad(n) == [i \in 1..n |-> "x"]

\* ------------------------------------------------------- printf conversions
DigitChar(d) == <<"0","1","2","3","4","5","6","7","8","9">>[d + 1]

RECURSIVE Digits(_)
\* The decimal digits of n >= 0.
Digits(n) == IF n < 10 THEN <<DigitChar(n)>>
             ELSE Digits(n \div 10) \o <<DigitChar(n % 10)>>

\* printf("%d", n)
Fmt_d(n) == IF n < 0 THEN <<"-">> \o Digits(0 - n) ELSE Digits(n)

RECURSIVE StripZeros(_)
\* n > 0 without its trailing decimal zeros.
StripZeros(n) == IF n % 10 = 0 THEN StripZeros(n \div 10) ELSE n

\* printf("%g", t / 10) for a double of at most six significant digits:
\* fixed notation without trailing zeros while the decimal exponent is below
\* the precision 6, and d.ddde+XX from there on.
Fmt_g(t) ==
    LET a    == IF t < 0 THEN 0 - t ELSE t
        sign == IF t < 0 THEN <<"-">> ELSE <<>>
        ip   == a \div 10
        fp   == a % 10
        X    == Len(Digits(ip)) - 1
        m    == Digits(StripZeros(a))
        ex   == IF X < 10 THEN <<"0">> \o Digits(X) ELSE Digits(X)
    IN  IF a = 0 THEN <<"0">>
        ELSE IF X < 6
             THEN sign \o Digits(ip)
                       \o (IF fp = 0 THEN <<>> ELSE <<".", DigitChar(fp)>>)
             ELSE sign \o <<Head(m)>>
                       \o (IF Len(m) > 1 THEN <<".">> \o Tail(m) ELSE <<>>)
                       \o <<"e", "+">> \o ex

\* snprintf(buf, size, ...) of the formatted text s into a zeroed buffer:
\* nothing is written when size is 0, otherwise at most size - 1 characters
\* and a terminator.
snprintf(size, s) == IF size = 0 THEN <<>> ELSE Take(s, size - 1)

\* ------------------------------------------------------------- alias table
alias_list == <<
    [name |-> S_motion_force_zero,      alias |-> S_force],
    [name |-> S_adm_enhn_gain_limit,    alias |-> S_egl],
    [name |-> S_vif_enhn_gain_limit,    alias |-> S_egl],
    [name |-> S_adm_norm_view_dist,     alias |-> S_nvd],
    [name |-> S_adm_ref_display_height, alias |-> S_rdh] >>

RECURSIVE key_alias_from_or_alias(_, _)
\* Mutant of key_alias_from: a key that is itself an alias matches too.
key_alias_from_or_alias(i, key) ==
    IF i > Len(alias_list) THEN NULL
    ELSE IF key = alias_list[i].name \/ key = alias_list[i].alias
         THEN alias_list[i].alias
    ELSE key_alias_from_or_alias(i + 1, key)

RECURSIVE key_alias_from(_, _)
key_alias_from(i, key) ==
    IF i > Len(alias_list) THEN NULL
    ELSE IF key = alias_list[i].name THEN alias_list[i].alias
    ELSE key_alias_from(i + 1, key)

key_alias(key) == key_alias_from(1, key)

\* The display alias of a feature name (alias.h): the alias of the entry
\* whose name is the feature name, the feature name itself otherwise.
feature_alias_list == << [name |-> S_adm2_score, alias |-> S_adm2] >>

vmaf_feature_name_alias(name) ==
    IF \E i \in 1..Len(feature_alias_list) : feature_alias_list[i].name = name
    THEN LET i == CHOOSE i \in 1..Len(feature_alias_list) :
                     feature_alias_list[i].name = name
         IN  feature_alias_list[i].alias
    ELSE name

\* ------------------------------------------------------- vmaf_feature_name
\* The result: the returned string, whether it is the caller's buffer, and
\* the number of buffer bytes the call wrote (memset, then snprintf).
vmaf_feature_name(name, key, val, buf_sz) ==
    IF key = NULL THEN [ret |-> name, in_buf |-> FALSE, written |-> 0]
    ELSE IF key_alias(key) = NULL
         THEN [ret |-> name, in_buf |-> FALSE, written |-> 0]
    ELSE LET buf == snprintf(buf_sz - 1,
                             vmaf_feature_name_alias(name) \o <<"_">>
                             \o key_alias(key) \o <<"_">> \o Fmt_g(val))
         IN  [ret |-> buf, in_buf |-> TRUE,
              written |-> Max(buf_sz,
                              IF buf_sz - 1 = 0 THEN 0 ELSE Len(buf) + 1)]

\* -------------------------------------------------------------- dictionary
NULL_DICT == [tag |-> "null", entry |-> <<>>, addr |-> 0]

\* The pointer value that the integer n converts to.
IntToPtr(n) == [tag |-> "intptr", entry |-> <<>>, addr |-> n]

HasKey(dict, key) == \E j \in 1..Len(dict.entry) : dict.entry[j].key = key

\* vmaf_dictionary_set(&dict, key, val, 0) (dict.h): the entry of an existing
\* key takes the new value, a new key is appended, and the dictionary is
\* created when the pointer is null.  ok = FALSE is an allocation failure,
\* which leaves the dictionary as it was.
vmaf_dictionary_set(dict, key, val, ok) ==
    IF ~ok THEN [err |-> 0 - ENOMEM, dict |-> dict]
    ELSE IF HasKey(dict, key)
         THEN [err |-> 0,
               dict |-> [dict EXCEPT !.entry =
                           [j \in 1..Len(dict.entry) |->
                              IF dict.entry[j].key = key
                              THEN [key |-> key, val |-> val]
                              ELSE dict.entry[j]]]]
    ELSE [err |-> 0,
          dict |-> [tag |-> "dict", addr |-> 0,
                    entry |-> Append(dict.entry, [key |-> key, val |-> val])]]

\* vmaf_dictionary_free(&dict) (dict.h): releases the dictionary and nulls
\* the pointer.
vmaf_dictionary_free(dict) == NULL_DICT

\* ---------------------------------------- vmaf_feature_name_from_opts_dict
\* Mutant of snprintfcat: the text is appended without regard to buf_sz.
snprintfcat_unbounded(buf, buf_sz, s) == buf \o s

\* The buffer after snprintfcat(buf, buf_sz, "%s...", s).
snprintfcat(buf, buf_sz, s) ==
    LET len == Min(Len(buf), buf_sz)
    IN  buf \o snprintf(buf_sz - len, s)

NULL_OPTS == <<>>

HasFlag(opt, flag) == flag \in opt.flags

RECURSIVE opts_dict_entries_any_flag(_, _, _, _, _)
\* Mutant of opts_dict_entries: the flag of the option is not tested.
opts_dict_entries_any_flag(buf, buf_sz, opt, opts_dict, j) ==
    IF j > Len(opts_dict.entry) THEN buf
    ELSE IF opt.name # opts_dict.entry[j].key
         THEN opts_dict_entries_any_flag(buf, buf_sz, opt, opts_dict, j + 1)
    ELSE LET key == IF opt.alias # NULL THEN opt.alias ELSE opt.name
             val == opts_dict.entry[j].val
         IN  opts_dict_entries_any_flag(
                 snprintfcat(buf, buf_sz, <<"_">> \o key \o <<"_">> \o val),
                 buf_sz, opt, opts_dict, j + 1)

RECURSIVE opts_dict_entries(_, _, _, _, _)
\* The inner loop (over the entries of the dictionary) for the option opt.
opts_dict_entries(buf, buf_sz, opt, opts_dict, j) ==
    IF j > Len(opts_dict.entry) THEN buf
    ELSE IF opt.name # opts_dict.entry[j].key
         THEN opts_dict_entries(buf, buf_sz, opt, opts_dict, j + 1)
    ELSE IF ~HasFlag(opt, "VMAF_OPT_FLAG_FEATURE_PARAM")
         THEN opts_dict_entries(buf, buf_sz, opt, opts_dict, j + 1)
    ELSE LET key == IF opt.alias # NULL THEN opt.alias ELSE opt.name
             val == opts_dict.entry[j].val
         IN  opts_dict_entries(
                 snprintfcat(buf, buf_sz, <<"_">> \o key \o <<"_">> \o val),
                 buf_sz, opt, opts_dict, j + 1)

RECURSIVE opts_dict_loop_by_entry(_, _, _, _, _)
\* Mutant of opts_dict_loop: the loops are exchanged, so that the entries of
\* the dictionary are walked in the outer loop (here i counts entries) and
\* the options in the inner one.
opts_dict_loop_by_entry(buf, buf_sz, opts, opts_dict, i) ==
    LET RECURSIVE inner(_, _)
        inner(b, k) ==
            IF opts[k].name = NULL THEN b
            ELSE IF opts[k].name # opts_dict.entry[i].key
                 THEN inner(b, k + 1)
            ELSE IF ~HasFlag(opts[k], "VMAF_OPT_FLAG_FEATURE_PARAM")
                 THEN inner(b, k + 1)
            ELSE inner(snprintfcat(b, buf_sz,
                           <<"_">> \o (IF opts[k].alias # NULL
                                       THEN opts[k].alias ELSE opts[k].name)
                           \o <<"_">> \o opts_dict.entry[i].val),
                       k + 1)
    IN  IF i > Len(opts_dict.entry) THEN buf
        ELSE opts_dict_loop_by_entry(inner(buf, 1), buf_sz, opts, opts_dict,
                                     i + 1)

RECURSIVE opts_dict_loop(_, _, _, _, _)
\* The outer loop (over the options of the table, up to the sentinel).
opts_dict_loop(buf, buf_sz, opts, opts_dict, i) ==
    IF opts[i].name = NULL THEN buf
    ELSE opts_dict_loop(opts_dict_entries(buf, buf_sz, opts[i], opts_dict, 1),
                        buf_sz, opts, opts_dict, i + 1)

\* Mutant of opts_dict_buf: the fallback takes the display alias as well.
opts_dict_buf_alias_fallback(name, opts, opts_dict) ==
    LET buf_sz == VMAF_FEATURE_NAME_DEFAULT_BUFFER_SIZE
    IN  IF opts = NULL_OPTS \/ opts_dict.tag = "null"
        THEN snprintfcat(<<>>, buf_sz, vmaf_feature_name_alias(name))
        ELSE opts_dict_loop(
                 snprintfcat(<<>>, buf_sz, vmaf_feature_name_alias(name)),
                 buf_sz, opts, opts_dict, 1)

\* The text the composer's buffer holds before it is copied out.
opts_dict_buf(name, opts, opts_dict) ==
    LET buf_sz == VMAF_FEATURE_NAME_DEFAULT_BUFFER_SIZE
    IN  IF opts = NULL_OPTS \/ opts_dict.tag = "null"
        THEN snprintfcat(<<>>, buf_sz, name)
        ELSE opts_dict_loop(
                 snprintfcat(<<>>, buf_sz, vmaf_feature_name_alias(name)),
                 buf_sz, opts, opts_dict, 1)

\* malloc of the copy is the one fallible step of the composer.
vmaf_feature_name_from_opts_dict(name, opts, opts_dict, fail) ==
    LET buf == opts_dict_buf(name, opts, opts_dict)
    IN  IF fail = 1 THEN [ret |-> NULL, fail |-> fail - 1]
        ELSE [ret |-> buf, fail |-> fail - 1]

\* ------------------------------------------ vmaf_feature_name_from_options
\* Mutant of option_is_default: a double within 1.0 of the default counts as
\* the default.
option_is_default_tolerant(opt, data) ==
    CASE opt.type = "VMAF_OPT_TYPE_BOOL" ->
             IF opt.default_val = data THEN 1 ELSE 0
      [] opt.type = "VMAF_OPT_TYPE_INT" ->
             IF opt.default_val = data THEN 1 ELSE 0
      [] opt.type = "VMAF_OPT_TYPE_DOUBLE" ->
             IF /\ opt.default_val - data < 10
                /\ data - opt.default_val < 10 THEN 1 ELSE 0
      [] OTHER -> 0 - EINVAL

\* data is the value of the field the option's offset locates.
option_is_default(opt, data) ==
    CASE opt.type = "VMAF_OPT_TYPE_BOOL" ->
             IF opt.default_val = data THEN 1 ELSE 0
      [] opt.type = "VMAF_OPT_TYPE_INT" ->
             IF opt.default_val = data THEN 1 ELSE 0
      [] opt.type = "VMAF_OPT_TYPE_DOUBLE" ->
             IF opt.default_val = data THEN 1 ELSE 0
      [] OTHER -> 0 - EINVAL

\* Mutant of option_value: a double is rendered with %d from its integer
\* part.
option_value_int(opt, data) ==
    LET buf_sz == VMAF_FEATURE_NAME_DEFAULT_BUFFER_SIZE
    IN  CASE opt.type = "VMAF_OPT_TYPE_BOOL" ->
                 snprintf(buf_sz, Fmt_d(IF data THEN 1 ELSE 0))
          [] opt.type = "VMAF_OPT_TYPE_INT" -> snprintf(buf_sz, Fmt_d(data))
          [] opt.type = "VMAF_OPT_TYPE_DOUBLE" ->
                 snprintf(buf_sz, Fmt_d(data \div 10))
          [] OTHER -> <<>>

\* The text rendered into the zeroed value buffer.
option_value(opt, data) ==
    LET buf_sz == VMAF_FEATURE_NAME_DEFAULT_BUFFER_SIZE
    IN  CASE opt.type = "VMAF_OPT_TYPE_BOOL" ->
                 snprintf(buf_sz, Fmt_d(IF data THEN 1 ELSE 0))
          [] opt.type = "VMAF_OPT_TYPE_INT" -> snprintf(buf_sz, Fmt_d(data))
          [] opt.type = "VMAF_OPT_TYPE_DOUBLE" -> snprintf(buf_sz, Fmt_g(data))
          [] OTHER -> <<>>

RECURSIVE options_scan(_, _, _, _, _)
\* The scan of the option table from option i on; ends at the sentinel or at
\* the first insertion that fails.
options_scan(opts, obj, i, opts_dict, fail) ==
    LET opt == opts[i]
    IN  IF opt.name = NULL
        THEN [err |-> 0, opts_dict |-> opts_dict, fail |-> fail]
        ELSE IF ~HasFlag(opt, "VMAF_OPT_FLAG_FEATURE_PARAM")
             THEN options_scan(opts, obj, i + 1, opts_dict, fail)
        ELSE IF option_is_default(opt, obj[opt.offset]) # 0
             THEN options_scan(opts, obj, i + 1, opts_dict, fail)
        ELSE LET set == vmaf_dictionary_set(opts_dict, opt.name,
                            option_value(opt, obj[opt.offset]), fail # 1)
             IN  IF set.err # 0
                 THEN [err |-> set.err, opts_dict |-> set.dict,
                       fail |-> fail - 1]
                 ELSE options_scan(opts, obj, i + 1, set.dict, fail - 1)

NULL_OBJ == <<>>

\* Mutant of vmaf_feature_name_from_options: the error of an insertion is
\* not tested, so the composer runs on the dictionary the scan left.
vmaf_feature_name_from_options_no_goto(name, opts, obj, fail) ==
    IF name = NULL \/ opts = NULL_OPTS \/ obj = NULL_OBJ
    THEN [output |-> NULL, err |-> 0, scanned |-> NULL_DICT,
          composed |-> FALSE, opts_dict |-> NULL_DICT, fail |-> fail]
    ELSE LET scan == options_scan(opts, obj, 1, NULL_DICT, fail)
             out  == vmaf_feature_name_from_opts_dict(name, opts,
                         scan.opts_dict, scan.fail)
         IN  [output |-> out.ret, err |-> scan.err,
              scanned |-> scan.opts_dict, composed |-> TRUE,
              opts_dict |-> vmaf_dictionary_free(scan.opts_dict),
              fail |-> out.fail]

\* The result: output is the returned string; scanned is the dictionary as
\* the scan left it, composed tells whether the composer ran, opts_dict is
\* the local dictionary pointer when the function returns.
vmaf_feature_name_from_options(name, opts, obj, fail) ==
    IF name = NULL \/ opts = NULL_OPTS \/ obj = NULL_OBJ
    THEN [output |-> NULL, err |-> 0, scanned |-> NULL_DICT,
          composed |-> FALSE, opts_dict |-> NULL_DICT, fail |-> fail]
    ELSE LET scan == options_scan(opts, obj, 1, NULL_DICT, fail)
             out  == vmaf_feature_name_from_opts_dict(name, opts,
                         scan.opts_dict, scan.fail)
         IN  IF scan.err # 0
             THEN [output |-> NULL, err |-> scan.err,
                   scanned |-> scan.opts_dict, composed |-> FALSE,
                   opts_dict |-> vmaf_dictionary_free(scan.opts_dict),
                   fail |-> scan.fail]
             ELSE [output |-> out.ret, err |-> 0,
                   scanned |-> scan.opts_dict, composed |-> TRUE,
                   opts_dict |-> vmaf_dictionary_free(scan.opts_dict),
                   fail |-> out.fail]

\* ---------------------------- vmaf_feature_name_dict_from_provided_features
\* Mutant of provided_features_fail: the map built so far is returned.
provided_features_fail_partial(dict, i) ==
    [ret |-> dict, dict |-> dict, failed_at |-> i, partial |-> dict]

\* The value returned at the label fail, given the local dictionary there.
provided_features_fail(dict, i) ==
    [ret |-> IntToPtr(0 - EINVAL), dict |-> vmaf_dictionary_free(dict),
     failed_at |-> i, partial |-> dict]

RECURSIVE provided_features_loop(_, _, _, _, _, _)
\* The loop from feature i on; provided_features ends with NULL.
provided_features_loop(provided_features, opts, obj, i, dict, fail) ==
    LET feature_name == provided_features[i]
        fn  == vmaf_feature_name_from_options(feature_name, opts, obj, fail)
        set == vmaf_dictionary_set(dict, feature_name, fn.output, fn.fail # 1)
    IN  IF feature_name = NULL
        THEN [ret |-> dict, dict |-> dict, failed_at |-> 0,
              partial |-> NULL_DICT]
        ELSE IF fn.output = NULL THEN provided_features_fail(dict, i)
        ELSE IF set.err # 0 THEN provided_features_fail(set.dict, i)
        ELSE provided_features_loop(provided_features, opts, obj, i + 1,
                                    set.dict, fn.fail - 1)

vmaf_feature_name_dict_from_provided_features(provided_features, opts, obj, fail) ==
    provided_features_loop(provided_features, opts, obj, 1, NULL_DICT, fail)

\* ------------------------------------------------------------ the callers
FEATURE_PARAM == {"VMAF_OPT_FLAG_FEATURE_PARAM"}

SENTINEL ==
    [name |-> NULL, alias |-> NULL, type |-> "", default_val |-> 0,
     offset |-> 0, flags |-> {}]

\* Two option tables over the same configuration instance.  An option table
\* gives, for each field, its name, optional alias, type, default, offset
\* and flags.
TableA == <<
    [name |-> S_debug, alias |-> NULL, type |-> "VMAF_OPT_TYPE_BOOL",
     default_val |-> TRUE, offset |-> 0, flags |-> {}],
    [name |-> S_adm_enhn_gain_limit, alias |-> S_egl,
     type |-> "VMAF_OPT_TYPE_DOUBLE", default_val |-> 10, offset |-> 8,
     flags |-> FEATURE_PARAM],
    [name |-> S_motion_force_zero, alias |-> S_force,
     type |-> "VMAF_OPT_TYPE_BOOL", default_val |-> FALSE, offset |-> 16,
     flags |-> FEATURE_PARAM],
    [name |-> S_adm_ref_display_height, alias |-> NULL,
     type |-> "VMAF_OPT_TYPE_INT", default_val |-> 1080, offset |-> 20,
     flags |-> FEATURE_PARAM],
    SENTINEL >>

TableB == <<
    [name |-> S_adm_ref_display_height, alias |-> S_rdh,
     type |-> "VMAF_OPT_TYPE_INT", default_val |-> 1080, offset |-> 20,
     flags |-> FEATURE_PARAM],
    [name |-> S_mode, alias |-> NULL, type |-> "VMAF_OPT_TYPE_OTHER",
     default_val |-> 0, offset |-> 24, flags |-> FEATURE_PARAM],
    [name |-> S_adm_enhn_gain_limit, alias |-> S_egl,
     type |-> "VMAF_OPT_TYPE_DOUBLE", default_val |-> 10, offset |-> 8,
     flags |-> FEATURE_PARAM],
    [name |-> S_debug, alias |-> NULL, type |-> "VMAF_OPT_TYPE_BOOL",
     default_val |-> TRUE, offset |-> 0, flags |-> {}],
    SENTINEL >>

Tables == {TableA, TableB}

Offsets == {0, 8, 16, 20, 24}

\* The values the caller stores in the field at an offset.
FieldValues(off) ==
    CASE off = 0  -> {TRUE, FALSE}
      [] off = 8  -> {10, 15}
      [] off = 16 -> {FALSE, TRUE}
      [] off = 20 -> {1080, 2160, 0 - 1}
      [] off = 24 -> {0, 1}

\* The instance as constructed: every field at the default its table names.
DefaultObj ==
    [off \in Offsets |->
        CASE off = 0  -> TRUE
          [] off = 8  -> 10
          [] off = 16 -> FALSE
          [] off = 20 -> 1080
          [] off = 24 -> 0]

BUF == VMAF_FEATURE_NAME_DEFAULT_BUFFER_SIZE

\* Feature names: plain ones, one with a display alias of its own, and names
\* around the capacity of the composer's buffer.
Names == {S_adm, S_motion, S_adm2_score, Pad(BUF - 6), Pad(BUF - 1), Pad(BUF)}

BatchNames == {S_adm, S_motion, S_adm2_score, Pad(BUF)}

\* Keys handed to vmaf_feature_name: absent, in the alias table, and not in
\* it (unknown, an alias rather than a name, differing only in case).
Keys == {NULL, S_motion_force_zero, S_adm_enhn_gain_limit, S_bogus, S_egl,
         S_ADM_ENHN_GAIN_LIMIT}

\* Values handed to vmaf_feature_name, in tenths: 1, 1.5, -0.5, 1e6.
Vals == {10, 15, 0 - 5, 10000000}

\* Buffer sizes handed to vmaf_feature_name; a buffer holds at least the
\* terminator.
BufSizes == {1, 2, 8, MaxBufSz}

\* Largest number of entries of a dictionary handed to the composer.
MaxDictLen == 2

\* Entries a caller of the composer puts in the dictionary.
Pairs == {
    [key |-> S_adm_enhn_gain_limit,    val |-> <<"1", ".", "5">>],
    [key |-> S_adm_ref_display_height, val |-> <<"2", "1", "6", "0">>],
    [key |-> S_debug,                  val |-> <<"0">>],
    [key |-> S_bogus,                  val |-> <<"7">>] }

UniqueKeys(e) ==
    \A i, j \in 1..Len(e) : i # j => e[i].key # e[j].key

\* The dictionaries of at most n entries with unique keys, in every
\* insertion order, and the null dictionary.
Dicts(n) ==
    {NULL_DICT} \cup
    { [tag |-> "dict", addr |-> 0, entry |-> e] :
        e \in { x \in UNION { [1..k -> Pairs] : k \in 1..n } : UniqueKeys(x) } }

\* Null-terminated lists of at most two feature names.
FeatureLists ==
    { <<NULL>> } \cup { <<a, NULL>> : a \in BatchNames }
                 \cup { <<a, b, NULL>> : a \in BatchNames, b \in BatchNames }

Idle == [fn |-> "idle"]

Init ==
    /\ options \in Tables
    /\ priv = DefaultObj
    /\ call = Idle

\* The owner of the configuration instance stores a value in a field.
SetOption ==
    /\ call.fn = "idle"
    /\ \E off \in Offsets : \E v \in FieldValues(off) :
           priv' = [priv EXCEPT ![off] = v]
    /\ UNCHANGED <<options, call>>

CallFeatureName ==
    /\ call.fn = "idle"
    /\ \E name \in Names, key \in Keys, val \in Vals, buf_sz \in BufSizes :
           call' = [fn |-> "vmaf_feature_name", name |-> name, key |-> key,
                    val |-> val, buf_sz |-> buf_sz,
                    res |-> vmaf_feature_name(name, key, val, buf_sz)]
    /\ UNCHANGED <<options, priv>>

CallFromOptsDict ==
    /\ call.fn = "idle"
    /\ \E name \in Names, opts \in {options, NULL_OPTS},
          opts_dict \in Dicts(MaxDictLen), fail \in {0, 1} :
           call' = [fn |-> "vmaf_feature_name_from_opts_dict",
                    name |-> name, opts |-> opts, opts_dict |-> opts_dict,
                    fail |-> fail,
                    res |-> vmaf_feature_name_from_opts_dict(
                                name, opts, opts_dict, fail)]
    /\ UNCHANGED <<options, priv>>

CallFromOptions ==
    /\ call.fn = "idle"
    /\ \E name \in Names \cup {NULL}, opts \in {options, NULL_OPTS},
          obj \in {priv, NULL_OBJ}, fail \in 0..MaxFailStep :
           call' = [fn |-> "vmaf_feature_name_from_options",
                    name |-> name, opts |-> opts, obj |-> obj, fail |-> fail,
                    res |-> vmaf_feature_name_from_options(
                                name, opts, obj, fail)]
    /\ UNCHANGED <<options, priv>>

CallDictFromProvidedFeatures ==
    /\ call.fn = "idle"
    /\ \E provided_features \in FeatureLists, opts \in {options, NULL_OPTS},
          fail \in 0..MaxFailStep :
           call' = [fn |-> "vmaf_feature_name_dict_from_provided_features",
                    provided_features |-> provided_features, opts |-> opts,
                    obj |-> priv, fail |-> fail,
                    res |-> vmaf_feature_name_dict_from_provided_features(
                                provided_features, opts, priv, fail)]
    /\ UNCHANGED <<options, priv>>

\* The caller is done with the result of the call.
Return ==
    /\ call.fn # "idle"
    /\ call' = Idle
    /\ UNCHANGED <<options, priv>>

Next ==
    \/ SetOption
    \/ CallFeatureName
    \/ CallFromOptsDict
    \/ CallFromOptions
    \/ CallDictFromProvidedFeatures
    \/ Return

Spec == Init /\ [][Next]_vars

\* ================================================================ claims
\* The number of options of a table, the sentinel not counted.
NumOpts(opts) ==
    CHOOSE n \in 0..(Len(opts) - 1) :
        /\ opts[n + 1].name = NULL
        /\ \A k \in 1..n : opts[k].name # NULL

IsParam(opt) == "VMAF_OPT_FLAG_FEATURE_PARAM" \in opt.flags

KnownKind(opt) ==
    opt.type \in {"VMAF_OPT_TYPE_BOOL", "VMAF_OPT_TYPE_INT",
                  "VMAF_OPT_TYPE_DOUBLE"}

\* Every naming-relevant parameter of the table has its default in obj.
AllDefault(opts, obj) ==
    \A i \in 1..NumOpts(opts) :
        IsParam(opts[i]) => obj[opts[i].offset] = opts[i].default_val

\* The options, in declaration order, that are naming-relevant and whose
\* field differs from the default.
NonDefaults(opts, obj) ==
    LET Differs(opt) == /\ IsParam(opt)
                        /\ KnownKind(opt)
                        /\ obj[opt.offset] # opt.default_val
    IN  SelectSeq(SubSeq(opts, 1, NumOpts(opts)), Differs)

IsFromOptions ==
    /\ call.fn = "vmaf_feature_name_from_options"
    /\ call.name # NULL
    /\ call.opts # NULL_OPTS
    /\ call.obj # NULL_OBJ

IsComposer == call.fn = "vmaf_feature_name_from_opts_dict"

IsFormatter == call.fn = "vmaf_feature_name"

IsBatch == call.fn = "vmaf_feature_name_dict_from_provided_features"

\* ---------------------------------------------------------------- C1
\* C1 as stated, for names that fit the buffer: on an all-default
\* configuration vmaf_feature_name_from_options returns the display alias of
\* the base name.
C1_ReturnsAliasOnDefaults ==
    (/\ IsFromOptions
     /\ AllDefault(call.opts, call.obj)
     /\ call.fail # 1
     /\ Len(call.name) < BUF)
    => call.res.output = vmaf_feature_name_alias(call.name)

\* C1 (amended): on an all-default configuration
\* vmaf_feature_name_from_options returns the base name it was given (its
\* first BUF - 1 characters), with no parameter segment and without
\* replacing the name by its display alias.
C1_ReturnsBaseNameOnDefaults ==
    (/\ IsFromOptions
     /\ AllDefault(call.opts, call.obj)
     /\ call.fail # 1)
    => call.res.output = Take(call.name, BUF - 1)

C1_Witness ==
    /\ IsFromOptions
    /\ AllDefault(call.opts, call.obj)
    /\ call.fail = 0
    /\ call.name = S_adm2_score
    /\ vmaf_feature_name_alias(call.name) = S_adm2
    /\ call.res.output = S_adm2_score

\* ---------------------------------------------------------------- C2
S_adm_egl_1_5 == S_adm \o <<"_">> \o S_egl \o <<"_", "1", ".", "5">>

S_motion_egl_1_5 == S_motion \o <<"_">> \o S_egl \o <<"_", "1", ".", "5">>

\* The batch scenario: names adm and motion, the shared table, and an
\* instance whose only non-default naming-relevant parameter is
\* adm_enhn_gain_limit = 1.5.
C2_Scenario ==
    /\ IsBatch
    /\ call.provided_features = <<S_adm, S_motion, NULL>>
    /\ call.opts # NULL_OPTS
    /\ call.fail = 0
    /\ call.obj[8] = 15
    /\ \A i \in 1..NumOpts(call.opts) :
          (IsParam(call.opts[i]) /\ call.opts[i].name # S_adm_enhn_gain_limit)
          => call.obj[call.opts[i].offset] = call.opts[i].default_val

Entries(dict) == { dict.entry[j] : j \in 1..Len(dict.entry) }

\* C2 as stated: the map is adm -> "adm_egl_1.5", motion -> "motion".
C2_OnlyAdmGetsTheSegment ==
    C2_Scenario =>
        /\ call.res.ret.tag = "dict"
        /\ Entries(call.res.ret) = { [key |-> S_adm, val |-> S_adm_egl_1_5],
                                     [key |-> S_motion, val |-> S_motion] }

\* C2 (amended): the map is adm -> "adm_egl_1.5", motion ->
\* "motion_egl_1.5": the non-default parameter of the shared instance is
\* appended to the canonical name of every metric of the list.
C2_EveryNameGetsTheSegment ==
    C2_Scenario =>
        /\ call.res.ret.tag = "dict"
        /\ Len(call.res.ret.entry) = 2
        /\ Entries(call.res.ret) =
               { [key |-> S_adm, val |-> S_adm_egl_1_5],
                 [key |-> S_motion, val |-> S_motion_egl_1_5] }

C2_Witness ==
    /\ C2_Scenario
    /\ call.res.failed_at = 0
    /\ call.res.ret.entry[2] = [key |-> S_motion, val |-> S_motion_egl_1_5]

\* ---------------------------------------------------------------- C3
\* The reorderings of a sequence of entries.
Reorderings(e) ==
    { [i \in 1..Len(e) |-> e[p[i]]] :
        p \in { q \in [1..Len(e) -> 1..Len(e)] :
                  \A i, j \in 1..Len(e) : i # j => q[i] # q[j] } }

Lookup(dict, key) ==
    dict.entry[CHOOSE j \in 1..Len(dict.entry) : dict.entry[j].key = key].val

\* The segment of an option: "_{alias or name}_{value}" when the option is
\* naming-relevant and its name is a key of the dictionary, nothing otherwise.
Segment(opt, dict) ==
    IF IsParam(opt) /\ HasKey(dict, opt.name)
    THEN <<"_">> \o (IF opt.alias # NULL THEN opt.alias ELSE opt.name)
                 \o <<"_">> \o Lookup(dict, opt.name)
    ELSE <<>>

\* seg occurs in s at position p.
Occurs(seg, s, p) ==
    /\ p >= 1
    /\ p + Len(seg) - 1 <= Len(s)
    /\ SubSeq(s, p, p + Len(seg) - 1) = seg

IsComposing ==
    /\ IsComposer
    /\ call.opts # NULL_OPTS
    /\ call.opts_dict.tag = "dict"
    /\ call.fail # 1

\* C3: the composer emits the segments in declaration order: every
\* reordering of the entries of the dictionary composes to the same name,
\* and when the segments of two options both occur in the name, the segment
\* of the option declared first occurs before the other.
C3_DeclarationOrder ==
    IsComposing =>
        /\ \A e \in Reorderings(call.opts_dict.entry) :
              opts_dict_buf(call.name, call.opts,
                            [call.opts_dict EXCEPT !.entry = e])
                  = call.res.ret
        /\ \A i, j \in 1..NumOpts(call.opts) :
              LET si == Segment(call.opts[i], call.opts_dict)
                  sj == Segment(call.opts[j], call.opts_dict)
                  r  == call.res.ret
              IN  (/\ i < j
                   /\ si # <<>>
                   /\ sj # <<>>
                   /\ \E p \in 1..Len(r) : Occurs(si, r, p)
                   /\ \E p \in 1..Len(r) : Occurs(sj, r, p))
                  => \E p, q \in 1..Len(r) :
                        /\ Occurs(si, r, p)
                        /\ Occurs(sj, r, q)
                        /\ p + Len(si) <= q

\* The dictionary holds two naming-relevant keys in the reverse of their
\* declaration order, and both segments are in the name.
C3_Witness ==
    /\ IsComposing
    /\ Len(call.opts_dict.entry) = 2
    /\ \E i, j \in 1..NumOpts(call.opts) :
          /\ i < j
          /\ IsParam(call.opts[i])
          /\ IsParam(call.opts[j])
          /\ call.opts_dict.entry[1].key = call.opts[j].name
          /\ call.opts_dict.entry[2].key = call.opts[i].name
          /\ call.res.ret = vmaf_feature_name_alias(call.name)
                            \o Segment(call.opts[i], call.opts_dict)
                            \o Segment(call.opts[j], call.opts_dict)

\* ---------------------------------------------------------------- C4
AliasNames == { alias_list[i].name : i \in 1..Len(alias_list) }

AliasOfKey(key) ==
    alias_list[CHOOSE i \in 1..Len(alias_list) : alias_list[i].name = key].alias

\* The untruncated text "{alias(name)}_{alias(key)}_{value}".
Composed(name, key, val) ==
    vmaf_feature_name_alias(name) \o <<"_">> \o AliasOfKey(key)
        \o <<"_">> \o Fmt_g(val)

\* C4: when the key has an alias and the composed text is longer than
\* buf_sz - 1 characters, vmaf_feature_name returns exactly buf_sz - 1
\* characters (and a terminator) and writes no byte beyond the buf_sz bytes
\* of the buffer.
C4_TruncatesToBufSzMinus1 ==
    (/\ IsFormatter
     /\ call.key \in AliasNames
     /\ Len(Composed(call.name, call.key, call.val)) > call.buf_sz - 1)
    => /\ Len(call.res.ret) = call.buf_sz - 1
       /\ call.res.written <= call.buf_sz

\* ---------------------------------------------------------------- C5
\* The names of a null-terminated list.
Requested(provided_features) ==
    { provided_features[i] : i \in 1..(Len(provided_features) - 1) }

C6_UnknownKeyReturnsName ==
    (IsFormatter /\ (call.key = NULL \/ call.key \notin AliasNames))
    => /\ call.res.ret = call.name
       /\ ~call.res.in_buf

\* A key that differs from a table name only in case, and a base name whose
\* display alias is another string.
C6_Witness ==
    /\ IsFormatter
    /\ call.key = S_ADM_ENHN_GAIN_LIMIT
    /\ call.name = S_adm2_score
    /\ vmaf_feature_name_alias(call.name) # call.name
    /\ call.res.ret = S_adm2_score

\* ---------------------------------------------------------------- C7
Keys_of(dict) == [j \in 1..Len(dict.entry) |-> dict.entry[j].key]

\* The text of a field value of the option's kind: 0 or 1, a decimal
\* integer, or the %g form.
Rendered(opt, data) ==
    CASE opt.type = "VMAF_OPT_TYPE_BOOL" -> IF data THEN <<"1">> ELSE <<"0">>
      [] opt.type = "VMAF_OPT_TYPE_INT" -> Fmt_d(data)
      [] opt.type = "VMAF_OPT_TYPE_DOUBLE" -> Fmt_g(data)

\* C7: the scan of vmaf_feature_name_from_options inserts a pair
\* (name, rendered value) for exactly the options that are naming-relevant
\* and whose field differs from the default, in declaration order; a scan
\* that an insertion failure stops has inserted the pairs before it.
C7_ScanInsertsNonDefaults ==
    IsFromOptions =>
        LET nd == NonDefaults(call.opts, call.obj)
            sc == call.res.scanned
        IN  /\ call.res.err = 0 => Len(sc.entry) = Len(nd)
            /\ Len(sc.entry) <= Len(nd)
            /\ \A j \in 1..Len(sc.entry) :
                  sc.entry[j] =
                      [key |-> nd[j].name,
                       val |-> Rendered(nd[j], call.obj[nd[j].offset])]

\* One naming-relevant option is at its default and one is not, one option
\* that is not naming-relevant is off its default, and the scan inserts the
\* one pair.
C7_Witness ==
    /\ IsFromOptions
    /\ call.res.err = 0
    /\ call.obj[0] = FALSE
    /\ call.obj[8] = 10
    /\ call.obj[20] = 2160
    /\ call.obj[16] = FALSE
    /\ call.obj[24] = 1
    /\ Keys_of(call.res.scanned) = <<S_adm_ref_display_height>>

\* ---------------------------------------------------------------- C8
IsFallback ==
    /\ IsComposer
    /\ (call.opts = NULL_OPTS \/ call.opts_dict.tag = "null")
    /\ call.fail # 1

\* C8 as stated: with the table or the dictionary absent the composer
\* returns the base name verbatim, whatever its length.
C8_FallbackIsVerbatim ==
    IsFallback => call.res.ret = call.name

\* C8 (amended): with the table or the dictionary absent the composer
\* returns the first BUF - 1 characters of the base name, which is the whole
\* name when it has at most BUF - 1 characters: no alias substitution and no
\* segment.
C8_FallbackIsTruncatedName ==
    IsFallback => call.res.ret = Take(call.name, BUF - 1)

\* The table is absent, the dictionary holds a key, and the name has a
\* display alias of its own.
C8_Witness ==
    /\ IsFallback
    /\ call.opts = NULL_OPTS
    /\ call.opts_dict.tag = "dict"
    /\ vmaf_feature_name_alias(call.name) # call.name
    /\ call.res.ret = call.name

\* ---------------------------------------------------------------- C9
RECURSIVE Segments(_, _, _)
\* The segments of the options i.. of the table, in declaration order.
Segments(opts, dict, i) ==
    IF i > NumOpts(opts) THEN <<>>
    ELSE Segment(opts[i], dict) \o Segments(opts, dict, i + 1)

FullName(name, opts, dict) ==
    vmaf_feature_name_alias(name) \o Segments(opts, dict, 1)

\* C9 as stated, for display aliases that fit the buffer: the output is the
\* display alias followed by the segments.
C9_AliasAndSegments ==
    (IsComposing /\ Len(vmaf_feature_name_alias(call.name)) < BUF) =>
        call.res.ret = FullName(call.name, call.opts, call.opts_dict)

\* C9 (amended): the output is the first BUF - 1 characters of the display
\* alias followed by one segment "_{key}_{value}" for each option that is
\* naming-relevant and whose name is a key of the dictionary.
C9_TruncatedAliasAndSegments ==
    IsComposing =>
        call.res.ret =
            Take(FullName(call.name, call.opts, call.opts_dict), BUF - 1)

\* The dictionary holds a naming-relevant key and a key that is not; one
\* segment follows the alias.
C9_Witness ==
    /\ IsComposing
    /\ call.name = S_adm2_score
    /\ Keys_of(call.opts_dict) = <<S_debug, S_adm_enhn_gain_limit>>
    /\ call.res.ret = S_adm2 \o <<"_">> \o S_egl \o <<"_", "1", ".", "5">>

\* --------------------------------------------------------------- C10
\* C10: when the insertion of the k-th pair fails, the scan stops there with
\* the k - 1 earlier pairs, the dictionary is released, the composer does
\* not run and the function returns NULL.
C10_InsertFailureReturnsNull ==
    (/\ IsFromOptions
     /\ call.fail >= 1
     /\ call.fail <= Len(NonDefaults(call.opts, call.obj)))
    => /\ call.res.err # 0
       /\ Len(call.res.scanned.entry) = call.fail - 1
       /\ call.res.opts_dict = NULL_DICT
       /\ ~call.res.composed
       /\ call.res.output = NULL

\* The second insertion fails after the first succeeded.
C10_Witness ==
    /\ IsFromOptions
    /\ call.fail = 2
    /\ Len(NonDefaults(call.opts, call.obj)) >= 2
    /\ Len(call.res.scanned.entry) = 1
    /\ call.res.output = NULL

====
